---- MODULE Spec2Model ----
(***************************************************************************)
(* A model of the request-lifecycle pipeline of the Gemini client:         *)
(* error classification (lib/ai/errors.ts), the retry executor             *)
(* (lib/ai/utils.ts, withRetry) and the request client                      *)
(* (lib/ai/gemini-client.ts, generateText / makeAPICall).                   *)
(***************************************************************************)
EXTENDS Integers, Sequences, FiniteSets, TLC

(***************************************************************************)
(* Bounds of the model.                                                    *)
(***************************************************************************)
\* longest message (in fragments) given to inferErrorType on its own
MaxMsgLen == 3
\* longest message (in fragments) of an error raised by an operation
MaxOpMsgLen == 1
\* largest maxRetries argument withRetry is called with
MaxRetriesBound == 3

\* the longest text sanitizeText is applied to without padding
MaxTextLen == 5

\* the most Hangul syllables, and the most other characters, of a text
\* validateAndAdjustTokens is applied to
MaxCount == 8

\* the largest input budget (maxTokens - reservedTokens) below the default
MaxBudget == 4

\* the most requests generateTextBatch is called with
MaxRequests == 7

\* the most requests of a batch whose calls are followed attempt by attempt
MaxCalls == 3

(***************************************************************************)
(* Error kinds: enum GeminiErrorType.                                      *)
(***************************************************************************)
GeminiErrorType ==
    { "API_KEY_INVALID", "QUOTA_EXCEEDED", "TIMEOUT", "CONTENT_FILTERED",
      "NETWORK_ERROR", "RATE_LIMIT_EXCEEDED", "TOKEN_LIMIT_EXCEEDED",
      "INVALID_REQUEST", "SERVICE_UNAVAILABLE", "UNKNOWN" }

(***************************************************************************)
(* Messages.  A message is a sequence of text fragments (joined by single  *)
(* spaces).  The fragments (FragmentList) are the substrings               *)
(* inferErrorType looks for, some of them in upper case, and fragments     *)
(* that match nothing.                                                     *)
(***************************************************************************)
Keywords ==
    { "unauthorized", "api key", "quota", "rate limit", "invalid",
      "service unavailable", "internal server", "timeout", "timed out",
      "content", "filter", "network", "connection", "token", "limit" }

\* String.prototype.toLowerCase on one fragment
ToLowerCase(f) ==
    CASE f = "Quota"        -> "quota"
      [] f = "TIMEOUT"      -> "timeout"
      [] f = "Unauthorized" -> "unauthorized"
      [] OTHER              -> f

\* the keywords that occur as substrings of a fragment, compared exactly
\* (String.prototype.includes is case sensitive)
KeywordsIn(f) ==
    CASE f = "rate limit"          -> {"rate limit", "limit"}
      [] f = "rate limit exceeded" -> {"rate limit", "limit"}
      [] f \in Keywords            -> {f}
      [] OTHER                     -> {}

\* message.includes(kw): no keyword spans two fragments of this vocabulary
includes(message, kw) ==
    \E i \in DOMAIN message : kw \in KeywordsIn(message[i])

toLowerCase(message) ==
    [i \in DOMAIN message |-> ToLowerCase(message[i])]

\* the fragments in a fixed order
FragmentList ==
    << "unauthorized", "api key", "quota", "rate limit", "invalid",
       "service unavailable", "internal server", "timeout", "timed out",
       "content", "filter", "network", "connection", "token", "limit",
       "rate limit exceeded", "exceeded", "api call failed",
       "Quota", "TIMEOUT", "Unauthorized" >>

\* the messages of at most n distinct fragments, taken in the order of
\* FragmentList from position lo on (includes does not depend on the order
\* of the fragments, so one order stands for all)
RECURSIVE MessagesFrom(_, _)
MessagesFrom(lo, n) ==
    IF n = 0 THEN {<<>>}
    ELSE {<<>>} \cup
         UNION { { <<FragmentList[i]>> \o m : m \in MessagesFrom(i + 1, n - 1) } :
                 i \in lo..Len(FragmentList) }

Messages(n) == MessagesFrom(1, n)

(***************************************************************************)
(* Thrown values.  status / statusCode hold NoStatus when the property is  *)
(* absent or is not a number.                                              *)
(***************************************************************************)
NoStatus == -1

StatusCodes == {400, 401, 404, 429, 500, 503}

\* null / undefined (falsy thrown value)
NullValue ==
    [cls |-> "null", name |-> "", hasMessage |-> FALSE, message |-> <<>>,
     status |-> NoStatus, statusCode |-> NoStatus]

\* a value that is not a GeminiError: an Error (name "Error" or
\* "AbortError") or a plain object, with or without a string message
Untyped(cls, name, hasMessage, message, status, statusCode) ==
    [cls |-> cls, name |-> name, hasMessage |-> hasMessage,
     message |-> message, status |-> status, statusCode |-> statusCode]

\* new GeminiError(type, message, originalError, retryable)
GeminiError(type, message, originalError, retryable) ==
    [cls |-> "GeminiError", name |-> "GeminiError", hasMessage |-> TRUE,
     message |-> message, status |-> NoStatus, statusCode |-> NoStatus,
     type |-> type, originalError |-> originalError,
     retryable |-> retryable]

\* the default of the constructor's fourth parameter
DefaultRetryable == FALSE

instanceofGeminiError(error) == error.cls = "GeminiError"

instanceofError(error) == error.cls \in {"Error", "GeminiError"}

\* the shapes of a value that is not a GeminiError: null / undefined, an
\* object without a string message, an Error with a status property, an
\* Error with a statusCode property
Shapes == {"null", "object", "status", "statusCode"}

\* the value of a shape with message m and status code s
UntypedValue(shape, m, s) ==
    CASE shape = "null"       -> NullValue
      [] shape = "object"     -> Untyped("object", "", FALSE, <<>>, s, NoStatus)
      [] shape = "status"     -> Untyped("Error", "Error", TRUE, m, s, NoStatus)
      [] shape = "statusCode" -> Untyped("Error", "Error", TRUE, m, NoStatus, s)

\* the combinations of shape, message and status that give distinct values
WellShaped(shape, m, s) ==
    /\ shape \in {"null", "object"} => m = <<>>
    /\ shape = "null" => s = NoStatus
    /\ shape = "statusCode" => s # NoStatus

\* the status codes of the errors raised by an operation under withRetry
OpStatusCodes == {400, 429, 503}

\* the untyped values an operation may raise, with a message of at most n
\* fragments
UntypedValues(n) ==
    { UntypedValue(x[1], x[2], x[3]) :
        x \in { y \in {"null", "object", "status"} \X Messages(n)
                       \X (OpStatusCodes \cup {NoStatus}) :
                WellShaped(y[1], y[2], y[3]) } }

(***************************************************************************)
(* GeminiError.isRetryable                                                 *)
(***************************************************************************)
RetryableTypes == {"TIMEOUT", "NETWORK_ERROR", "SERVICE_UNAVAILABLE"}

\* isRetryable as it would be if the flag alone decided
isRetryableByFlag(error) ==
    error.retryable

isRetryable(error) ==
    error.retryable /\ error.type \in RetryableTypes

(***************************************************************************)
(* inferErrorType                                                          *)
(***************************************************************************)
statusOf(error) ==
    IF error.status # NoStatus THEN error.status
    ELSE IF error.statusCode # NoStatus THEN error.statusCode
    ELSE NoStatus

\* inferErrorType as it would be if the 429 / quota / rate limit rule tested
\* "rate limit" before "quota"
inferErrorTypeRateLimitFirst(error) ==
    IF error.cls = "null" THEN "UNKNOWN"
    ELSE
      LET message == toLowerCase(IF error.hasMessage THEN error.message
                                 ELSE <<>>)
          status  == statusOf(error)
      IN  IF status = 401 \/ includes(message, "unauthorized")
                \/ includes(message, "api key")
          THEN "API_KEY_INVALID"
          ELSE IF status = 429 \/ includes(message, "quota")
                \/ includes(message, "rate limit")
          THEN (IF includes(message, "rate limit") THEN "RATE_LIMIT_EXCEEDED"
                ELSE "QUOTA_EXCEEDED")
          ELSE IF status = 400 \/ includes(message, "invalid")
          THEN "INVALID_REQUEST"
          ELSE IF (status # NoStatus /\ status >= 500)
                \/ includes(message, "service unavailable")
                \/ includes(message, "internal server")
          THEN "SERVICE_UNAVAILABLE"
          ELSE IF includes(message, "timeout")
                \/ includes(message, "timed out")
          THEN "TIMEOUT"
          ELSE IF includes(message, "content") /\ includes(message, "filter")
          THEN "CONTENT_FILTERED"
          ELSE IF includes(message, "network")
                \/ includes(message, "connection")
          THEN "NETWORK_ERROR"
          ELSE IF includes(message, "token") /\ includes(message, "limit")
          THEN "TOKEN_LIMIT_EXCEEDED"
          ELSE "UNKNOWN"

inferErrorType(error) ==
    IF error.cls = "null" THEN "UNKNOWN"
    ELSE
      LET message == toLowerCase(IF error.hasMessage THEN error.message
                                 ELSE <<>>)
          status  == statusOf(error)
      IN  IF status = 401 \/ includes(message, "unauthorized")
                \/ includes(message, "api key")
          THEN "API_KEY_INVALID"
          ELSE IF status = 429 \/ includes(message, "quota")
                \/ includes(message, "rate limit")
          THEN (IF includes(message, "quota") THEN "QUOTA_EXCEEDED"
                ELSE "RATE_LIMIT_EXCEEDED")
          ELSE IF status = 400 \/ includes(message, "invalid")
          THEN "INVALID_REQUEST"
          ELSE IF (status # NoStatus /\ status >= 500)
                \/ includes(message, "service unavailable")
                \/ includes(message, "internal server")
          THEN "SERVICE_UNAVAILABLE"
          ELSE IF includes(message, "timeout")
                \/ includes(message, "timed out")
          THEN "TIMEOUT"
          ELSE IF includes(message, "content") /\ includes(message, "filter")
          THEN "CONTENT_FILTERED"
          ELSE IF includes(message, "network")
                \/ includes(message, "connection")
          THEN "NETWORK_ERROR"
          ELSE IF includes(message, "token") /\ includes(message, "limit")
          THEN "TOKEN_LIMIT_EXCEEDED"
          ELSE "UNKNOWN"

(***************************************************************************)
(* isNonRetryableError                                                     *)
(***************************************************************************)
\* the non-retryable list as it would be with RATE_LIMIT_EXCEEDED in it
NonRetryableTypesWithRateLimit ==
    { "API_KEY_INVALID", "CONTENT_FILTERED", "TOKEN_LIMIT_EXCEEDED",
      "INVALID_REQUEST", "RATE_LIMIT_EXCEEDED" }

NonRetryableTypes ==
    { "API_KEY_INVALID", "CONTENT_FILTERED", "TOKEN_LIMIT_EXCEEDED",
      "INVALID_REQUEST" }

isNonRetryableError(error) ==
    IF instanceofGeminiError(error)
    THEN ~isRetryable(error)
    ELSE inferErrorType(error) \in NonRetryableTypes

(***************************************************************************)
(* Texts.  A text is a sequence of characters; a character is a string.    *)
(* The Hangul syllables (U+AC00..U+D7A3) are written by name.              *)
(***************************************************************************)
\* the characters matched by the character class of estimateTokens, which
\* is the range from the first to the last Hangul syllable
Hangul == {"AN", "NYEONG", "HA", "SE", "YO"}

\* the characters matched by \s and removed by trim
Whitespace == {" ", "\t", "\n", "\r"}

\* text.substring(0, n): n below 0 (or NaN) counts as 0, n above the length
\* as the length
substring(text, n) ==
    SubSeq(text, 1, IF n < 0 THEN 0 ELSE IF n > Len(text) THEN Len(text) ELSE n)

\* n copies of the character c
RECURSIVE Repeat(_, _)
Repeat(c, n) == IF n <= 0 THEN <<>> ELSE <<c>> \o Repeat(c, n - 1)

\* the texts of at most n characters of the set cs
TextsOver(cs, n) == UNION { [1..k -> cs] : k \in 0..n }

(***************************************************************************)
(* estimateTokens, validateTokenLimit, validateAndAdjustTokens             *)
(***************************************************************************)
\* estimateTokens as it would be with Math.floor in place of Math.ceil
estimateTokensRoundedDown(text) ==
    IF text = <<>> THEN 0
    ELSE LET koreanChars  == Cardinality({i \in DOMAIN text : text[i] \in Hangul})
             englishChars == Len(text) - koreanChars
             estimatedTokens == (8 * koreanChars + 5 * englishChars) \div 20
         IN  IF estimatedTokens > 1 THEN estimatedTokens ELSE 1

\* Math.ceil(koreanChars / 2.5 + englishChars / 4), which is
\* ceil((8 * koreanChars + 5 * englishChars) / 20)
estimateTokens(text) ==
    IF text = <<>> THEN 0
    ELSE LET koreanChars  == Cardinality({i \in DOMAIN text : text[i] \in Hangul})
             englishChars == Len(text) - koreanChars
             estimatedTokens ==
                 (8 * koreanChars + 5 * englishChars + 19) \div 20
         IN  IF estimatedTokens > 1 THEN estimatedTokens ELSE 1

\* const reservedTokens = 2000
ReservedTokens == 2000

\* DEFAULT_CONFIG.maxTokens
DefaultMaxTokens == 8192

\* the marker appended to a truncated text
TruncationMarker == <<".", ".", ".">>

\* Math.floor((text.length * maxInputTokens) / estimatedTokens); 0 / 0 is
\* NaN, which substring takes as 0
targetLengthOf(text, maxInputTokens, estimatedTokens) ==
    IF estimatedTokens = 0 THEN 0
    ELSE (Len(text) * maxInputTokens) \div estimatedTokens

validateAndAdjustTokens(text, maxTokens) ==
    LET estimatedTokens == estimateTokens(text)
        maxInputTokens  == maxTokens - ReservedTokens
    IN  IF estimatedTokens <= maxInputTokens
        THEN [isValid |-> TRUE, hasAdjustedText |-> FALSE,
              adjustedText |-> <<>>, estimatedTokens |-> estimatedTokens]
        ELSE LET targetLength ==
                     targetLengthOf(text, maxInputTokens, estimatedTokens)
                 adjustedText ==
                     substring(text, targetLength) \o TruncationMarker
             IN  [isValid |-> FALSE, hasAdjustedText |-> TRUE,
                  adjustedText |-> adjustedText,
                  estimatedTokens |-> estimateTokens(adjustedText)]

(***************************************************************************)
(* sanitizeText                                                            *)
(***************************************************************************)
\* String.prototype.trim
RECURSIVE trimStart(_)
trimStart(text) ==
    IF text # <<>> /\ Head(text) \in Whitespace THEN trimStart(Tail(text))
    ELSE text

RECURSIVE trimEnd(_)
trimEnd(text) ==
    IF text # <<>> /\ text[Len(text)] \in Whitespace
    THEN trimEnd(SubSeq(text, 1, Len(text) - 1))
    ELSE text

trim(text) == trimEnd(trimStart(text))

\* replace(/\r\n/g, '\n')
RECURSIVE replaceCRLF(_)
replaceCRLF(text) ==
    IF text = <<>> THEN <<>>
    ELSE IF Len(text) >= 2 /\ text[1] = "\r" /\ text[2] = "\n"
    THEN <<"\n">> \o replaceCRLF(SubSeq(text, 3, Len(text)))
    ELSE <<text[1]>> \o replaceCRLF(Tail(text))

\* replace(/\t/g, '  ')
RECURSIVE replaceTabs(_)
replaceTabs(text) ==
    IF text = <<>> THEN <<>>
    ELSE IF text[1] = "\t" THEN <<" ", " ">> \o replaceTabs(Tail(text))
    ELSE <<text[1]>> \o replaceTabs(Tail(text))

\* the last position of the run of characters of set cs that starts at i
RECURSIVE runEnd(_, _, _)
runEnd(text, i, cs) ==
    IF i < Len(text) /\ text[i + 1] \in cs THEN runEnd(text, i + 1, cs)
    ELSE i

\* the position where the match of /\s+\n/ that starts at i ends, 0 if
\* there is no match at i: \s+ takes the whole whitespace run i..j and
\* gives characters back until the next one is a newline
matchEnd(text, i, j) ==
    LET ks == {k \in (i + 1)..j : text[k] = "\n"}
    IN  IF ks = {} THEN 0 ELSE CHOOSE k \in ks : \A l \in ks : l <= k

\* replace(/\s+\n/g, '\n') from position i on.  When there is no match at
\* the start of a whitespace run there is none at its later positions
\* either.
RECURSIVE stripFrom(_, _)
stripFrom(text, i) ==
    IF i > Len(text) THEN <<>>
    ELSE IF text[i] \notin Whitespace
    THEN <<text[i]>> \o stripFrom(text, i + 1)
    ELSE LET j == runEnd(text, i, Whitespace)
             k == matchEnd(text, i, j)
         IN  IF k = 0
             THEN SubSeq(text, i, j) \o stripFrom(text, j + 1)
             ELSE <<"\n">> \o stripFrom(text, k + 1)

stripBeforeNewline(text) == stripFrom(text, 1)

\* replace(/\n{3,}/g, '\n\n') from position i on
RECURSIVE collapseFrom(_, _)
collapseFrom(text, i) ==
    IF i > Len(text) THEN <<>>
    ELSE IF text[i] # "\n"
    THEN <<text[i]>> \o collapseFrom(text, i + 1)
    ELSE LET j == runEnd(text, i, {"\n"})
         IN  (IF j - i + 1 >= 3 THEN <<"\n", "\n">> ELSE SubSeq(text, i, j))
                 \o collapseFrom(text, j + 1)

collapseNewlines(text) == collapseFrom(text, 1)

\* the ceiling of sanitizeText.  The source has 100000; the model scales
\* it to the lengths of its texts.
MaxLength == 12

sanitizeText(text) ==
    IF text = <<>> THEN <<>>
    ELSE substring(
           collapseNewlines(
             stripBeforeNewline(replaceTabs(replaceCRLF(trim(text))))),
           MaxLength)

(***************************************************************************)
(* State.                                                                  *)
(*   clsState, clsError, clsKind, clsNonRetryable: one application of      *)
(*     inferErrorType / isNonRetryableError to a thrown value.             *)
(*   rpc .. retError: one call of withRetry.  invocations, lastRaised and  *)
(*     firstOutcome are history variables (calls of operation so far, the  *)
(*     error the latest call raised, how the first call ended).            *)
(*   remote, controllerAborted, timerArmed: the attempt of makeAPICall in  *)
(*     progress (the remote call, its AbortController, its timer) and the  *)
(*     response the remote call last resolved with (history).              *)
(*   initialized .. constructed: one call of generateText; constructed is  *)
(*     the set of GeminiError values built so far; dispatched is the list  *)
(*     of the texts given to the transport so far (history).               *)
(*   sanState .. sanAgain: sanitizeText applied to a text, and then to its *)
(*     own output.                                                         *)
(*   budState .. budEstimate: one application of validateAndAdjustTokens   *)
(*     or of estimateTokens to a text.                                     *)
(*   bpc .. batchValue: one call of generateTextBatch with requests         *)
(*     1..requests; reqState is where the generateText call of each        *)
(*     request stands, batchIndex the loop variable i, rejected the        *)
(*     request whose rejection settled the Promise.all of the group.       *)
(*   reqAttempt, reqSleeping: the attempt counter of the withRetry loop of *)
(*     each request's call and whether it is in its backoff sleep;         *)
(*     usageLogs is the set of usage records handed over; outOfOrder tells *)
(*     whether a request has returned before an earlier one of its group   *)
(*     (history).                                                          *)
(*   baseBackoffMs, sleepMs, sleeps: the third argument of withRetry, the  *)
(*     delay of the sleep in progress and the sleeps ended so far          *)
(*     (history).                                                          *)
(*   cfgState, env, config: one call of getGeminiConfig with the           *)
(*     environment env; config is the object it builds.                    *)
(*   msgState .. userMessages: getErrorMessage applied to two thrown       *)
(*     values.                                                             *)
(*   hpc, healthValue: one call of healthCheck and what it returned.       *)
(***************************************************************************)
VARIABLES clsState, clsError, clsKind, clsNonRetryable,
          rpc, maxRetries, attempt, invocations, lastError, lastRaised,
          firstOutcome, retValue, retError,
          baseBackoffMs, sleepMs, sleeps,
          remote, controllerAborted, timerArmed, lastResponse,
          initialized, gpc, log, recorded, genValue, genError, constructed,
          options, finalPrompt, inputTokens, dispatched,
          sanState, sanInput, sanOutput, sanAgain,
          budState, budText, budMaxTokens, budResult, budEstimate,
          bpc, requests, batchIndex, reqState, results, rejected,
          batchError, batchValue,
          reqAttempt, reqSleeping, usageLogs, outOfOrder,
          cfgState, env, config,
          msgState, msgErrors, userMessages,
          hpc, healthValue

clsVars == <<clsState, clsError, clsKind, clsNonRetryable>>

\* the third argument of withRetry, the delay of the sleep in progress (0
\* when there is none) and the sleeps that have ended so far (history)
backoffVars == <<baseBackoffMs, sleepMs, sleeps>>

retryVars == <<rpc, maxRetries, attempt, invocations, lastError, lastRaised,
               firstOutcome, retValue, retError, backoffVars>>

callVars == <<remote, controllerAborted, timerArmed, lastResponse>>

\* what generateText computes from its argument before the retry sequence
promptVars == <<options, finalPrompt, inputTokens>>

genVars == <<initialized, gpc, log, recorded, genValue, genError,
             constructed, promptVars, dispatched>>

sanVars == <<sanState, sanInput, sanOutput, sanAgain>>

budVars == <<budState, budText, budMaxTokens, budResult, budEstimate>>

textVars == <<sanVars, budVars>>

configVars == <<cfgState, env, config>>

messageVars == <<msgState, msgErrors, userMessages>>

healthVars == <<hpc, healthValue>>

\* what no step of withRetry, makeAPICall or generateTextBatch touches
sideVars == <<textVars, configVars, messageVars, healthVars>>

\* the withRetry loop of the generateText call of each request, and the
\* usage records the calls have handed to logAPIUsage
callsVars == <<reqAttempt, reqSleeping, usageLogs, outOfOrder>>

batchVars == <<bpc, requests, batchIndex, reqState, results, rejected,
               batchError, batchValue, callsVars>>

vars == <<clsVars, retryVars, callVars, genVars, sideVars, batchVars>>

(***************************************************************************)
(* Values that flow through the executor.                                  *)
(***************************************************************************)
\* what the transport's generateContent resolves with: response.text may be
\* missing, empty or a text (a sequence of characters)
Response(hasText, text) == [hasText |-> hasText, text |-> text]

NoResponse == Response(FALSE, <<>>)

Responses ==
    { NoResponse, Response(TRUE, <<>>), Response(TRUE, <<"H", "i">>) }

\* what makeAPICall returns
APIResult(text) == [text |-> text, finishReason |-> "STOP"]

NoResult == [text |-> <<>>, finishReason |-> ""]

\* errors a GeminiError-raising operation may raise
TypedErrors ==
    { GeminiError(t, <<>>, NullValue, r) :
        t \in GeminiErrorType, r \in BOOLEAN }

\* every value an operation given to withRetry may raise
OperationErrors == UntypedValues(MaxOpMsgLen) \cup TypedErrors

\* the error a cancelled fetch rejects with
AbortError ==
    Untyped("Error", "AbortError", TRUE, <<"aborted">>, NoStatus, NoStatus)

\* every value the transport's generateContent may reject with: the
\* untyped values with a message of at most one fragment, and AbortError
TransportErrors == UntypedValues(1) \cup {AbortError}

\* the arguments generateText gives withRetry
GenMaxRetries == 3

\* the third argument generateText gives withRetry, which is also the
\* default of the parameter
GenBaseBackoffMs == 1000

\* the value of baseBackoffMs withRetry is called with: every caller
\* gives 1000 or leaves the default
BaseBackoffs == {GenBaseBackoffMs}

\* the values of Math.random(), in tenths
Randoms == {0, 9}

\* the usage record generateText builds
NewLog ==
    [inputTokens |-> 0, outputTokens |-> 0, success |-> FALSE,
     hasError |-> FALSE, error |-> <<>>]

\* the argument of generateText: maxTokens 0 stands for every falsy value
\* of options.maxTokens (absent, 0), which `||` replaces by the configured
\* value
Options(prompt, maxTokens) == [prompt |-> prompt, maxTokens |-> maxTokens]

NoOptions == Options(<<>>, 0)

\* the prompts generateText is called with: empty, with whitespace to
\* clean, short, mixed, and longer than the ceiling of sanitizeText
GenPrompts ==
    { <<>>,
      <<" ", "a", "\t", "\n", "a", " ">>,
      Repeat("a", 5),
      Repeat("HA", 3) \o Repeat("a", 4),
      Repeat("a", MaxLength + 2) }

\* the values of options.maxTokens: absent, the one of healthCheck's probe,
\* and values just above the reserve
GenMaxTokens == {0, 10, ReservedTokens + 1, ReservedTokens + 3}

\* the response generateText returns
GeminiResponse(text, input, output, finishReason) ==
    [text |-> text,
     tokens |-> [input |-> input, output |-> output,
                 total |-> input + output],
     finishReason |-> finishReason]

(***************************************************************************)
(* getErrorMessage.  A user message is a sequence of fragments, like a     *)
(* technical message; each text of the table is one fragment, given here   *)
(* in English.                                                             *)
(***************************************************************************)
DefaultUserMessage == <<"An error occurred during AI processing. Try again.">>

\* getErrorMessage as it would be if it appended the message of the error
getErrorMessageWithDetail(error) ==
    IF instanceofGeminiError(error)
    THEN DefaultUserMessage \o error.message
    ELSE DefaultUserMessage

\* the switch on error.type, and the fallback for any other thrown value
getErrorMessage(error) ==
    IF instanceofGeminiError(error)
    THEN CASE error.type = "API_KEY_INVALID" ->
                <<"The API key is not valid. Check the settings.">>
           [] error.type = "QUOTA_EXCEEDED" ->
                <<"The API usage quota was exceeded. Try again later.">>
           [] error.type = "RATE_LIMIT_EXCEEDED" ->
                <<"The request rate limit was exceeded. Try again later.">>
           [] error.type = "TIMEOUT" ->
                <<"The request timed out. Try again.">>
           [] error.type = "CONTENT_FILTERED" ->
                <<"The content was filtered. Try other content.">>
           [] error.type = "TOKEN_LIMIT_EXCEEDED" ->
                <<"The text is too long. Try shorter content.">>
           [] error.type = "SERVICE_UNAVAILABLE" ->
                <<"The AI service is temporarily unavailable. Try again later.">>
           [] OTHER -> DefaultUserMessage
    ELSE DefaultUserMessage

\* the technical messages of the errors given to getErrorMessage
TechnicalMessages ==
    { <<>>, <<"quota">>, <<"api key", "invalid">>, <<"timed out">> }

\* the errors given to getErrorMessage: GeminiError values of every type,
\* with and without a cause, and values that are not a GeminiError
MessageErrors ==
    { GeminiError(type, m, cause, DefaultRetryable) :
        type \in GeminiErrorType, m \in TechnicalMessages,
        cause \in { NullValue,
                    Untyped("Error", "Error", TRUE, <<"connection">>,
                            NoStatus, NoStatus) } }
      \cup { NullValue }
      \cup { Untyped("Error", "Error", TRUE, m, NoStatus, NoStatus) :
               m \in TechnicalMessages }

(***************************************************************************)
(* Configuration: getGeminiConfig and validateConfig.  An environment      *)
(* value is a string (a sequence of characters) or is not set; a number of *)
(* the configuration is an integer or NaN.                                 *)
(***************************************************************************)
\* process.env.X of a variable that is not set
Unset == <<"undefined">>

\* a number that is an integer
Number(n) == [isNaN |-> FALSE, value |-> n]

NaN == [isNaN |-> TRUE, value |-> 0]

\* the value of a digit character, 16 for any other character
digitValue(c) ==
    CASE c = "0" -> 0 [] c = "1" -> 1 [] c = "2" -> 2 [] c = "3" -> 3
      [] c = "4" -> 4 [] c = "5" -> 5 [] c = "6" -> 6 [] c = "7" -> 7
      [] c = "8" -> 8 [] c = "9" -> 9 [] c = "a" -> 10 [] c = "b" -> 11
      [] c = "c" -> 12 [] c = "d" -> 13 [] c = "e" -> 14 [] c = "f" -> 15
      [] OTHER -> 16

\* the longest run of digits of the radix from position i on: how many
\* digits it has and the number they denote after acc
RECURSIVE parseDigits(_, _, _, _, _)
parseDigits(string, i, radix, acc, count) ==
    IF i <= Len(string) /\ digitValue(string[i]) < radix
    THEN parseDigits(string, i + 1, radix,
                     acc * radix + digitValue(string[i]), count + 1)
    ELSE [count |-> count, value |-> acc]

\* parseInt(string) without a radix: leading white space is skipped, then
\* an optional sign, an optional 0x, and the longest run of digits is
\* read; what follows is ignored, and without a digit the result is NaN
parseInt(string) ==
    LET t == trimStart(string)
        signed == t # <<>> /\ t[1] \in {"-", "+"}
        u == IF signed THEN Tail(t) ELSE t
        hex == Len(u) >= 2 /\ u[1] = "0" /\ u[2] \in {"x", "X"}
        d == IF hex THEN parseDigits(u, 3, 16, 0, 0)
             ELSE parseDigits(u, 1, 10, 0, 0)
    IN  IF d.count = 0 THEN NaN
        ELSE Number(IF signed /\ t[1] = "-" THEN 0 - d.value ELSE d.value)

\* a <= n and a > n of JavaScript: both are false when a is NaN
lessOrEqual(a, n) == ~a.isNaN /\ a.value <= n

greaterThan(a, n) == ~a.isNaN /\ a.value > n

\* DEFAULT_CONFIG, the numbers as String(..) gives them
DEFAULT_CONFIG ==
    [maxTokens |-> <<"8", "1", "9", "2">>,
     timeout |-> <<"1", "0", "0", "0", "0">>,
     rateLimitPerMinute |-> <<"6", "0">>]

\* value || fallback: a variable that is not set or is empty is falsy
orDefault(value, fallback) ==
    IF value = Unset \/ value = <<>> THEN fallback ELSE value

\* the object getGeminiConfig builds from the environment
configOf(e) ==
    [apiKey |-> e.GEMINI_API_KEY,
     maxTokens |->
        parseInt(orDefault(e.GEMINI_MAX_TOKENS, DEFAULT_CONFIG.maxTokens)),
     timeout |->
        parseInt(orDefault(e.GEMINI_TIMEOUT_MS, DEFAULT_CONFIG.timeout)),
     rateLimitPerMinute |->
        parseInt(orDefault(e.GEMINI_RATE_LIMIT,
                           DEFAULT_CONFIG.rateLimitPerMinute))]

\* the errors validateConfig collects
validateConfig(c) ==
    (IF c.apiKey = Unset \/ c.apiKey = <<>>
     THEN {"GEMINI_API_KEY is required"} ELSE {})
    \cup
    (IF lessOrEqual(c.maxTokens, 0) \/ greaterThan(c.maxTokens, 50000)
     THEN {"GEMINI_MAX_TOKENS must be between 1 and 50000"} ELSE {})
    \cup
    (IF lessOrEqual(c.timeout, 0) \/ greaterThan(c.timeout, 60000)
     THEN {"GEMINI_TIMEOUT_MS must be between 1 and 60000"} ELSE {})
    \cup
    (IF lessOrEqual(c.rateLimitPerMinute, 0)
          \/ greaterThan(c.rateLimitPerMinute, 1000)
     THEN {"GEMINI_RATE_LIMIT must be between 1 and 1000"} ELSE {})

NoEnv ==
    [GEMINI_API_KEY |-> Unset, GEMINI_MAX_TOKENS |-> Unset,
     GEMINI_TIMEOUT_MS |-> Unset, GEMINI_RATE_LIMIT |-> Unset]

NoConfig ==
    [apiKey |-> Unset, maxTokens |-> NaN, timeout |-> NaN,
     rateLimitPerMinute |-> NaN]

\* the values of the numeric environment variables: not set, empty, in
\* range, at and beyond the limits, and strings that are not integers
EnvValues ==
    { Unset, <<>>,
      <<"1">>, <<"0">>, <<"-", "1">>,
      <<"1", "0", "0", "0">>, <<"1", "0", "0", "1">>,
      <<"5", "0", "0", "0", "0">>, <<"5", "0", "0", "0", "1">>,
      <<"6", "0", "0", "0", "0">>, <<"6", "0", "0", "0", "1">>,
      <<"a", "b", "c">>, <<"1", "2", "p", "x">>, <<"1", ".", "5">>,
      <<" ", "4", "2">>, <<"0", "x", "1", "0">> }

\* the values of GEMINI_API_KEY
ApiKeys == { Unset, <<>>, <<"k", "e", "y">> }

(***************************************************************************)
(* Initial states.                                                         *)
(***************************************************************************)
ClsIdle ==
    /\ clsState = "off"
    /\ clsError = NullValue
    /\ clsKind = "UNKNOWN"
    /\ clsNonRetryable = FALSE

RetryIdle ==
    /\ rpc = "idle"
    /\ maxRetries = 0
    /\ attempt = 0
    /\ invocations = 0
    /\ lastError = NullValue
    /\ lastRaised = NullValue
    /\ firstOutcome = "none"
    /\ retValue = NoResult
    /\ retError = NullValue
    /\ baseBackoffMs = 0
    /\ sleepMs = 0
    /\ sleeps = 0

CallIdle ==
    /\ remote = "none"
    /\ controllerAborted = FALSE
    /\ timerArmed = FALSE
    /\ lastResponse = NoResponse

\* a constructed client: the constructor either sets initialized or throws
GenIdle(pc) ==
    /\ initialized = TRUE
    /\ gpc = pc
    /\ log = NewLog
    /\ recorded = <<>>
    /\ genValue = NoResult
    /\ genError = NullValue
    /\ constructed = {}
    /\ options = NoOptions
    /\ finalPrompt = <<>>
    /\ inputTokens = 0
    /\ dispatched = <<>>

SanIdle ==
    /\ sanState = "off"
    /\ sanInput = <<>>
    /\ sanOutput = <<>>
    /\ sanAgain = <<>>

NoValidation ==
    [isValid |-> TRUE, hasAdjustedText |-> FALSE, adjustedText |-> <<>>,
     estimatedTokens |-> 0]

BudIdle ==
    /\ budState = "off"
    /\ budText = <<>>
    /\ budMaxTokens = 0
    /\ budResult = NoValidation
    /\ budEstimate = 0

TextIdle == SanIdle /\ BudIdle

ConfigIdle ==
    /\ cfgState = "off"
    /\ env = NoEnv
    /\ config = NoConfig

MessageIdle ==
    /\ msgState = "off"
    /\ msgErrors = <<NullValue, NullValue>>
    /\ userMessages = <<>>

HealthIdle ==
    /\ hpc = "off"
    /\ healthValue = FALSE

SideIdle == TextIdle /\ ConfigIdle /\ MessageIdle /\ HealthIdle

BatchIdle ==
    /\ bpc = "off"
    /\ requests = 0
    /\ batchIndex = 0
    /\ reqState = <<>>
    /\ results = <<>>
    /\ rejected = 0
    /\ batchError = 0
    /\ batchValue = <<>>
    /\ reqAttempt = <<>>
    /\ reqSleeping = <<>>
    /\ usageLogs = {}
    /\ outOfOrder = FALSE

\* a thrown value about to be classified
InitClassify ==
    /\ clsState = "input"
    /\ \E shape \in Shapes, m \in Messages(MaxMsgLen),
          s \in StatusCodes \cup {NoStatus} :
            /\ WellShaped(shape, m, s)
            /\ clsError = UntypedValue(shape, m, s)
    /\ clsKind = "UNKNOWN"
    /\ clsNonRetryable = FALSE
    /\ RetryIdle /\ CallIdle /\ GenIdle("none") /\ SideIdle /\ BatchIdle

\* withRetry(operation, maxRetries, baseBackoffMs) has just been called with
\* an arbitrary operation: attempt = 1, lastError not yet assigned
InitRetry ==
    /\ ClsIdle
    /\ rpc = "loop"
    /\ maxRetries \in 0..MaxRetriesBound
    /\ attempt = 1
    /\ invocations = 0
    /\ lastError = NullValue
    /\ lastRaised = NullValue
    /\ firstOutcome = "none"
    /\ retValue = NoResult
    /\ retError = NullValue
    /\ baseBackoffMs \in BaseBackoffs
    /\ sleepMs = 0
    /\ sleeps = 0
    /\ CallIdle /\ GenIdle("none") /\ SideIdle /\ BatchIdle

\* a constructed client on which generateText has not yet been called
InitGen ==
    /\ ClsIdle /\ RetryIdle /\ CallIdle /\ GenIdle("idle") /\ SideIdle
    /\ BatchIdle

\* the characters sanitizeText treats differently, and one it leaves alone
SanChars == {"a", " ", "\t", "\r", "\n"}

ExampleText ==
    <<"a", "\r", "\n", "b", "\t", "\t", "c", "\n", "\n", "\n", "\n", "d">>

\* the texts sanitizeText is applied to: short texts, the same texts behind
\* a run of letters that brings them to the ceiling, and the example
SanitizeInputs ==
    TextsOver(SanChars, MaxTextLen)
      \cup { Repeat("a", MaxLength - 2) \o t : t \in TextsOver(SanChars, MaxTextLen) }
      \cup { ExampleText }

InitSanitize ==
    /\ sanState = "input"
    /\ sanInput \in SanitizeInputs
    /\ sanOutput = <<>>
    /\ sanAgain = <<>>
    /\ BudIdle /\ ConfigIdle /\ MessageIdle /\ HealthIdle /\ BatchIdle
    /\ ClsIdle /\ RetryIdle /\ CallIdle /\ GenIdle("none")

\* "Hello"
HelloText == <<"H", "e", "l", "l", "o">>

\* the five Hangul syllables of the greeting the tests estimate
AnnyeongText == <<"AN", "NYEONG", "HA", "SE", "YO">>

\* the texts validateAndAdjustTokens and estimateTokens are applied to:
\* Hangul syllables before or after other characters, and two greetings
BudgetTexts ==
    { Repeat("HA", k) \o Repeat("a", e) : k, e \in 0..MaxCount }
      \cup { Repeat("a", e) \o Repeat("HA", k) : k, e \in 0..MaxCount }
      \cup { HelloText, AnnyeongText }

\* the values of maxTokens: around the reserve, and the configured default
BudgetMaxTokens ==
    ((ReservedTokens - 1)..(ReservedTokens + MaxBudget)) \cup {DefaultMaxTokens}

InitBudget ==
    /\ budState = "input"
    /\ budText \in BudgetTexts
    /\ budMaxTokens \in BudgetMaxTokens
    /\ budResult = NoValidation
    /\ budEstimate = 0
    /\ SanIdle /\ ConfigIdle /\ MessageIdle /\ HealthIdle /\ BatchIdle
    /\ ClsIdle /\ RetryIdle /\ CallIdle /\ GenIdle("none")

\* the constructor of GeminiClient is about to call getGeminiConfig
InitConfig ==
    /\ cfgState = "env"
    /\ env \in [GEMINI_API_KEY : ApiKeys, GEMINI_MAX_TOKENS : EnvValues,
                GEMINI_TIMEOUT_MS : EnvValues, GEMINI_RATE_LIMIT : EnvValues]
    /\ config = NoConfig
    /\ TextIdle /\ MessageIdle /\ HealthIdle /\ BatchIdle
    /\ ClsIdle /\ RetryIdle /\ CallIdle /\ GenIdle("none")

(***************************************************************************)
(* getGeminiConfig, called by the constructor of GeminiClient: the object  *)
(* is built and validated; the constructor keeps it, or the Error of       *)
(* validateConfig leaves the constructor.                                  *)
(***************************************************************************)
GetGeminiConfig ==
    /\ cfgState = "env"
    /\ IF validateConfig(configOf(env)) # {}
       THEN /\ cfgState' = "threw"
            /\ UNCHANGED config
       ELSE /\ cfgState' = "constructed"
            /\ config' = configOf(env)
    /\ UNCHANGED <<env, textVars, messageVars, healthVars>>
    /\ UNCHANGED <<clsVars, retryVars, callVars, genVars, batchVars>>

\* a constructed client on which healthCheck is about to be called
InitHealth ==
    /\ hpc = "idle"
    /\ healthValue = FALSE
    /\ TextIdle /\ ConfigIdle /\ MessageIdle /\ BatchIdle
    /\ ClsIdle /\ RetryIdle /\ CallIdle /\ GenIdle("idle")

\* two thrown values about to be given to getErrorMessage
InitMessage ==
    /\ msgState = "input"
    /\ msgErrors \in MessageErrors \X MessageErrors
    /\ userMessages = <<>>
    /\ TextIdle /\ ConfigIdle /\ HealthIdle /\ BatchIdle
    /\ ClsIdle /\ RetryIdle /\ CallIdle /\ GenIdle("none")

(***************************************************************************)
(* getErrorMessage applied to both values.                                 *)
(***************************************************************************)
GetErrorMessage ==
    /\ msgState = "input"
    /\ msgState' = "done"
    /\ userMessages' = <<getErrorMessage(msgErrors[1]),
                         getErrorMessage(msgErrors[2])>>
    /\ UNCHANGED <<msgErrors, textVars, configVars, healthVars>>
    /\ UNCHANGED <<clsVars, retryVars, callVars, genVars, batchVars>>

(***************************************************************************)
(* sanitizeText and validateAndAdjustTokens applied to a text.             *)
(***************************************************************************)
Sanitize ==
    /\ sanState = "input"
    /\ sanState' = "once"
    /\ sanOutput' = sanitizeText(sanInput)
    /\ UNCHANGED <<sanInput, sanAgain, budVars>>
    /\ UNCHANGED <<configVars, messageVars, healthVars>>
    /\ UNCHANGED <<clsVars, retryVars, callVars, genVars, batchVars>>

SanitizeAgain ==
    /\ sanState = "once"
    /\ sanState' = "twice"
    /\ sanAgain' = sanitizeText(sanOutput)
    /\ UNCHANGED <<sanInput, sanOutput, budVars>>
    /\ UNCHANGED <<configVars, messageVars, healthVars>>
    /\ UNCHANGED <<clsVars, retryVars, callVars, genVars, batchVars>>

ValidateAndAdjust ==
    /\ budState = "input"
    /\ budState' = "done"
    /\ budResult' = validateAndAdjustTokens(budText, budMaxTokens)
    /\ UNCHANGED <<budText, budMaxTokens, budEstimate, sanVars>>
    /\ UNCHANGED <<configVars, messageVars, healthVars>>
    /\ UNCHANGED <<clsVars, retryVars, callVars, genVars, batchVars>>

Estimate ==
    /\ budState = "input"
    /\ budState' = "estimated"
    /\ budEstimate' = estimateTokens(budText)
    /\ UNCHANGED <<budText, budMaxTokens, budResult, sanVars>>
    /\ UNCHANGED <<configVars, messageVars, healthVars>>
    /\ UNCHANGED <<clsVars, retryVars, callVars, genVars, batchVars>>

(***************************************************************************)
(* Classification of one thrown value.                                     *)
(***************************************************************************)
Classify ==
    /\ clsState = "input"
    /\ clsState' = "done"
    /\ clsKind' = inferErrorType(clsError)
    /\ clsNonRetryable' = isNonRetryableError(clsError)
    /\ UNCHANGED <<clsError, retryVars, callVars, genVars, sideVars,
                   batchVars>>

(***************************************************************************)
(* withRetry.                                                              *)
(***************************************************************************)
\* the delay as it would be without the doubling
sleepMsOfFlat(base, k, random) ==
    base + (random * 3 * base) \div 100

\* backoffMs + jitter for the failed attempt k, where Math.random() gave
\* random / 10: backoffMs = base * 2^(k - 1), jitter = random * 0.3 *
\* backoffMs
sleepMsOf(base, k, random) ==
    base * 2^(k - 1) + (random * 3 * base * 2^(k - 1)) \div 100

\* await sleep(backoffMs + jitter)
Sleep ==
    \E random \in Randoms : sleepMs' = sleepMsOf(baseBackoffMs, attempt, random)

\* the catch block leaves the loop without sleeping
NoSleep == sleepMs' = sleepMs

\* how the first call of operation ended (history)
FirstOutcomeAfter(outcome) ==
    IF invocations = 1 THEN outcome ELSE firstOutcome

\* try { return await operation() }: the operation resolved with value
ReturnValue(value) ==
    /\ rpc' = "returned"
    /\ retValue' = value
    /\ firstOutcome' = FirstOutcomeAfter("success")
    /\ UNCHANGED <<maxRetries, attempt, invocations, lastError, lastRaised,
                   retError, backoffVars>>

\* the catch block as it would be without the non-retryable check
CatchAlwaysRetry(error) ==
    /\ lastError' = error
    /\ lastRaised' = error
    /\ firstOutcome' =
         FirstOutcomeAfter(IF isNonRetryableError(error) THEN "fatal"
                           ELSE "retryable")
    /\ IF attempt >= maxRetries
       THEN rpc' = "threw" /\ retError' = lastError' /\ NoSleep
       ELSE rpc' = "sleeping" /\ retError' = retError /\ Sleep
    /\ UNCHANGED <<maxRetries, attempt, invocations, retValue,
                   baseBackoffMs, sleeps>>

\* the catch block as it would be if lastError kept the first error
CatchKeepFirst(error) ==
    /\ lastError' = (IF invocations = 1 THEN error ELSE lastError)
    /\ lastRaised' = error
    /\ firstOutcome' =
         FirstOutcomeAfter(IF isNonRetryableError(error) THEN "fatal"
                           ELSE "retryable")
    /\ IF isNonRetryableError(error)
       THEN rpc' = "threw" /\ retError' = error /\ NoSleep
       ELSE IF attempt >= maxRetries
       THEN rpc' = "threw" /\ retError' = lastError' /\ NoSleep
       ELSE rpc' = "sleeping" /\ retError' = retError /\ Sleep
    /\ UNCHANGED <<maxRetries, attempt, invocations, retValue,
                   baseBackoffMs, sleeps>>

\* catch (error) { ... }: the operation raised error
Catch(error) ==
    /\ lastError' = error
    /\ lastRaised' = error
    /\ firstOutcome' =
         FirstOutcomeAfter(IF isNonRetryableError(error) THEN "fatal"
                           ELSE "retryable")
    /\ IF isNonRetryableError(error)
       THEN \* throw error
            rpc' = "threw" /\ retError' = error /\ NoSleep
       ELSE IF attempt >= maxRetries
       THEN \* break, then throw lastError after the loop
            rpc' = "threw" /\ retError' = lastError' /\ NoSleep
       ELSE \* await sleep(backoffMs + jitter)
            rpc' = "sleeping" /\ retError' = retError /\ Sleep
    /\ UNCHANGED <<maxRetries, attempt, invocations, retValue,
                   baseBackoffMs, sleeps>>

\* the head of the for loop: call operation, or leave the loop and throw
\* lastError.  Under generateText the operation is makeAPICall, which
\* creates its AbortController, arms its timer and starts the remote call.
RetryLoop ==
    /\ rpc = "loop"
    /\ IF attempt <= maxRetries
       THEN /\ rpc' = "awaitOp"
            /\ invocations' = invocations + 1
            /\ retError' = retError
            /\ IF gpc = "retrying"
               THEN /\ remote' = "inflight"
                    /\ controllerAborted' = FALSE
                    /\ timerArmed' = TRUE
                    /\ lastResponse' = lastResponse
                    /\ dispatched' = Append(dispatched, finalPrompt)
               ELSE UNCHANGED <<callVars, dispatched>>
       ELSE /\ rpc' = "threw"
            /\ retError' = lastError
            /\ invocations' = invocations
            /\ UNCHANGED <<callVars, dispatched>>
    /\ UNCHANGED <<maxRetries, attempt, lastError, lastRaised, firstOutcome,
                   retValue, backoffVars>>
    /\ UNCHANGED <<initialized, gpc, log, recorded, genValue, genError,
                   constructed, promptVars>>
    /\ UNCHANGED <<sideVars, batchVars, clsVars>>

\* an operation other than makeAPICall resolves
OpResolves ==
    /\ rpc = "awaitOp" /\ gpc = "none"
    /\ \E r \in Responses : ReturnValue(APIResult(r.text))
    /\ UNCHANGED <<sideVars, batchVars, clsVars, callVars, genVars>>

\* an operation other than makeAPICall rejects
OpRejects ==
    /\ rpc = "awaitOp" /\ gpc = "none"
    /\ \E error \in OperationErrors : Catch(error)
    /\ UNCHANGED <<sideVars, batchVars, clsVars, callVars, genVars>>

\* the backoff sleep ends; the loop increments attempt
SleepElapses ==
    /\ rpc = "sleeping"
    /\ rpc' = "loop"
    /\ attempt' = attempt + 1
    /\ sleepMs' = 0
    /\ sleeps' = sleeps + 1
    /\ UNCHANGED <<maxRetries, invocations, lastError, lastRaised,
                   firstOutcome, retValue, retError, baseBackoffMs>>
    /\ UNCHANGED <<sideVars, batchVars, clsVars, callVars, genVars>>

(***************************************************************************)
(* makeAPICall.                                                            *)
(***************************************************************************)
\* the timer callback runs controller.abort().  controller.signal is given
\* to nobody, so the remote call is not affected.
TimerFires ==
    /\ timerArmed
    /\ controllerAborted' = TRUE
    /\ timerArmed' = FALSE
    /\ UNCHANGED <<remote, lastResponse>>
    /\ UNCHANGED <<sideVars, batchVars, clsVars, retryVars, genVars>>

\* the message of the GeminiError makeAPICall builds for an empty response
NoTextMessage == <<"content", "filter">>

\* the message of the GeminiError makeAPICall builds for an AbortError
TimedOutMessage == <<"timed out">>

\* generateContent resolves: clearTimeout, then a missing or empty text
\* raises CONTENT_FILTERED (rethrown by the catch block), else the result
\* !text as it would be if only a missing text counted
hasNoTextMissingOnly(response) ==
    ~response.hasText

\* !text: the text is missing or empty
hasNoText(response) ==
    ~response.hasText \/ response.text = <<>>

TransportResolves ==
    /\ rpc = "awaitOp" /\ gpc = "retrying" /\ remote = "inflight"
    /\ remote' = "resolved"
    /\ timerArmed' = FALSE
    /\ UNCHANGED controllerAborted
    /\ \E response \in Responses :
         /\ lastResponse' = response
         /\ IF hasNoText(response)
            THEN LET error == GeminiError("CONTENT_FILTERED", NoTextMessage,
                                          NullValue, DefaultRetryable)
                 IN  /\ constructed' = constructed \cup {error}
                     /\ Catch(error)
            ELSE /\ constructed' = constructed
                 /\ ReturnValue(APIResult(response.text))
    /\ UNCHANGED <<initialized, gpc, log, recorded, genValue, genError,
                   promptVars, dispatched>>
    /\ UNCHANGED <<sideVars, batchVars, clsVars>>

\* generateContent rejects: clearTimeout, then an AbortError is replaced by
\* a TIMEOUT GeminiError and anything else is rethrown
TransportRejects ==
    /\ rpc = "awaitOp" /\ gpc = "retrying" /\ remote = "inflight"
    /\ remote' = "rejected"
    /\ timerArmed' = FALSE
    /\ UNCHANGED <<controllerAborted, lastResponse>>
    /\ \E error \in TransportErrors :
         IF instanceofError(error) /\ error.name = "AbortError"
         THEN LET timeout == GeminiError("TIMEOUT", TimedOutMessage,
                                         NullValue, DefaultRetryable)
              IN  /\ constructed' = constructed \cup {timeout}
                  /\ Catch(timeout)
         ELSE /\ constructed' = constructed
              /\ Catch(error)
    /\ UNCHANGED <<initialized, gpc, log, recorded, genValue, genError,
                   promptVars, dispatched>>
    /\ UNCHANGED <<sideVars, batchVars, clsVars>>

(***************************************************************************)
(* generateText.                                                           *)
(***************************************************************************)
NotInitializedMessage == <<"not initialized">>

\* options.maxTokens || this.config.maxTokens
maxTokensOf(opts) ==
    IF opts.maxTokens # 0 THEN opts.maxTokens ELSE DefaultMaxTokens

\* the final prompt as it would be if the adjusted text were ignored
finalPromptUnadjusted(tokenValidation, sanitizedPrompt) ==
    sanitizedPrompt

\* tokenValidation.adjustedText || sanitizedPrompt
finalPromptOf(tokenValidation, sanitizedPrompt) ==
    IF tokenValidation.hasAdjustedText
         /\ tokenValidation.adjustedText # <<>>
    THEN tokenValidation.adjustedText
    ELSE sanitizedPrompt

\* generateText(options) up to its first await: the initialization check,
\* the sanitized and adjusted prompt, the usage record, withRetry(.., 3, ..)
generateText(opts) ==
    /\ gpc = "idle"
    /\ options' = opts
    /\ IF ~initialized
       THEN LET error == GeminiError("API_KEY_INVALID", NotInitializedMessage,
                                     NullValue, DefaultRetryable)
            IN  /\ gpc' = "threw"
                /\ genError' = error
                /\ constructed' = constructed \cup {error}
                /\ UNCHANGED <<log, retryVars, finalPrompt, inputTokens>>
       ELSE LET sanitizedPrompt == sanitizeText(options'.prompt)
                tokenValidation ==
                    validateAndAdjustTokens(sanitizedPrompt,
                                            maxTokensOf(options'))
            IN  /\ finalPrompt' =
                      finalPromptOf(tokenValidation, sanitizedPrompt)
                /\ inputTokens' = estimateTokens(finalPrompt')
                /\ log' = [NewLog EXCEPT !.inputTokens = inputTokens']
                /\ gpc' = "retrying"
                /\ rpc' = "loop"
                /\ maxRetries' = GenMaxRetries
                /\ baseBackoffMs' = GenBaseBackoffMs
                /\ attempt' = 1
                /\ UNCHANGED <<invocations, lastError, lastRaised,
                               firstOutcome, retValue, retError, genError,
                               constructed, sleepMs, sleeps>>
    /\ UNCHANGED <<initialized, recorded, genValue, dispatched>>
    /\ UNCHANGED <<textVars, configVars, messageVars>>
    /\ UNCHANGED <<batchVars, clsVars, callVars>>

\* a caller calls generateText with some options
GenerateText ==
    /\ \E prompt \in GenPrompts, maxTokens \in GenMaxTokens :
         generateText(Options(prompt, maxTokens))
    /\ UNCHANGED healthVars

(***************************************************************************)
(* healthCheck: generateText is called with the probe, and what it returns *)
(* or throws decides the result.                                           *)
(***************************************************************************)
\* this.generateText({ prompt: 'Hello', maxTokens: 10 })
HealthCheck ==
    /\ hpc = "idle"
    /\ hpc' = "awaiting"
    /\ generateText(Options(HelloText, 10))
    /\ UNCHANGED healthValue

\* healthCheck as it would be without its catch block: the error of the
\* probe leaves healthCheck
HealthRethrows ==
    /\ hpc = "awaiting" /\ gpc \in {"returned", "threw"}
    /\ hpc' = (IF gpc = "returned" THEN "returned" ELSE "threw")
    /\ healthValue' = (gpc = "returned" /\ Len(genValue.text) > 0)
    /\ UNCHANGED <<textVars, configVars, messageVars>>
    /\ UNCHANGED <<clsVars, retryVars, callVars, genVars, batchVars>>

\* the await resumes: return result.text.length > 0, or the catch block
\* logs the error and returns false
HealthReturns ==
    /\ hpc = "awaiting" /\ gpc \in {"returned", "threw"}
    /\ hpc' = "returned"
    /\ healthValue' = (gpc = "returned" /\ Len(genValue.text) > 0)
    /\ UNCHANGED <<textVars, configVars, messageVars>>
    /\ UNCHANGED <<clsVars, retryVars, callVars, genVars, batchVars>>

\* the usage record of a success as it would be without log.success = true
successLogUnset(usage, outputTokens) ==
    [usage EXCEPT !.outputTokens = outputTokens]

\* log.outputTokens = outputTokens; log.success = true
successLog(usage, outputTokens) ==
    [usage EXCEPT !.outputTokens = outputTokens, !.success = TRUE]

\* withRetry returned: finish the usage record, log it, return the response
GenSucceeds ==
    /\ gpc = "retrying" /\ rpc = "returned"
    /\ LET outputTokens == estimateTokens(retValue.text)
       IN  /\ log' = successLog(log, outputTokens)
           /\ recorded' = Append(recorded, log')
           /\ genValue' = GeminiResponse(retValue.text, inputTokens,
                                         outputTokens, retValue.finishReason)
    /\ gpc' = "returned"
    /\ UNCHANGED <<initialized, genError, constructed, promptVars,
                   dispatched>>
    /\ UNCHANGED <<sideVars, batchVars, clsVars, retryVars, callVars>>

\* String(error): the text a thrown value converts to
StringOf(error) ==
    CASE error.cls = "null"   -> <<"null">>
      [] error.cls = "object" -> <<"[object Object]">>
      [] OTHER                -> <<error.name, ": ">> \o error.message

\* error instanceof Error ? error.message : String(error)
logErrorOf(error) ==
    IF instanceofError(error) THEN error.message ELSE StringOf(error)

\* `API call failed: ${error}`
WrapMessage(error) == <<"api call failed">> \o StringOf(error)

\* the error generateText throws as it would be if it wrapped every error
rethrownAlwaysWrapped(error) ==
    GeminiError(inferErrorType(error), WrapMessage(error), error,
                DefaultRetryable)

\* if (error instanceof GeminiError) throw error; otherwise
\* throw new GeminiError(inferErrorType(error), .., error)
rethrown(error) ==
    IF instanceofGeminiError(error) THEN error
    ELSE GeminiError(inferErrorType(error), WrapMessage(error), error,
                     DefaultRetryable)

\* withRetry threw: finish the usage record, log it, rethrow a GeminiError
\* as it is and wrap anything else
GenFails ==
    /\ gpc = "retrying" /\ rpc = "threw"
    /\ log' = [log EXCEPT !.success = FALSE, !.hasError = TRUE,
                          !.error = logErrorOf(retError)]
    /\ recorded' = Append(recorded, log')
    /\ genError' = rethrown(retError)
    /\ constructed' = constructed \cup ({genError'} \ {retError})
    /\ gpc' = "threw"
    /\ UNCHANGED <<initialized, genValue, promptVars, dispatched>>
    /\ UNCHANGED <<sideVars, batchVars, clsVars, retryVars, callVars>>

(***************************************************************************)
(* generateTextBatch.  The generateText call of a request is one of the    *)
(* calls modelled above; here it is in flight from its dispatch until it   *)
(* returns or throws.                                                      *)
(***************************************************************************)
\* const batchSize = 5
batchSize == 5

\* requests.slice(i, i + batchSize), as request numbers
slice(i) == { r \in 1..requests : i < r /\ r <= i + batchSize }

\* the requests of a set in the order of the input
RECURSIVE inOrder(_)
inOrder(rs) ==
    IF rs = {} THEN <<>>
    ELSE LET r == CHOOSE x \in rs : \A y \in rs : x <= y
         IN  <<r>> \o inOrder(rs \ {r})

\* batch.map(request => this.generateText(request)): every call of the
\* group runs up to its first await, which dispatches its request
dispatch(state, i) ==
    [r \in DOMAIN state |-> IF r \in slice(i) THEN "inflight" ELSE state[r]]

\* the prompt of request r
promptOf(r) == Repeat("a", r)

\* the usage record as it would be if the calls of a batch shared one
\* record, written last by the call of the last request
usageRecordShared(r, success) ==
    LET sanitizedPrompt == sanitizeText(promptOf(requests))
        tokenValidation ==
            validateAndAdjustTokens(sanitizedPrompt, DefaultMaxTokens)
    IN  [inputTokens |->
           estimateTokens(finalPromptOf(tokenValidation, sanitizedPrompt)),
         timer |-> requests,
         success |-> success]

\* the usage record the generateText call of request r hands over: the
\* input tokens of its own final prompt, the latency read from its own
\* timer, its own outcome
usageRecord(r, success) ==
    LET sanitizedPrompt == sanitizeText(promptOf(r))
        tokenValidation ==
            validateAndAdjustTokens(sanitizedPrompt, DefaultMaxTokens)
    IN  [inputTokens |->
           estimateTokens(finalPromptOf(tokenValidation, sanitizedPrompt)),
         timer |-> r,
         success |-> success]

\* generateTextBatch is called with a list of n requests
BatchCalled(n) ==
    /\ bpc = "idle"
    /\ requests = n
    /\ batchIndex = 0
    /\ reqState = [r \in 1..requests |-> "waiting"]
    /\ reqAttempt = [r \in 1..requests |-> 0]
    /\ reqSleeping = [r \in 1..requests |-> FALSE]
    /\ usageLogs = {}
    /\ outOfOrder = FALSE
    /\ results = <<>>
    /\ rejected = 0
    /\ batchError = 0
    /\ batchValue = <<>>
    /\ SideIdle
    /\ ClsIdle /\ RetryIdle /\ CallIdle /\ GenIdle("none")

\* a batch whose calls are followed from dispatch to return or throw
InitBatch == \E n \in 0..MaxRequests : BatchCalled(n)

\* a batch whose calls are followed attempt by attempt
InitBatchCalls == \E n \in 0..MaxCalls : BatchCalled(n)

\* withRetry(.., 3, 1000) of every call of the group starts with attempt 1
startAttempts(attempts, i) ==
    [r \in DOMAIN attempts |-> IF r \in slice(i) THEN 1 ELSE attempts[r]]

\* the call: an empty list returns at once, otherwise the loop starts with
\* i = 0 and the first group is dispatched
GenerateTextBatch ==
    /\ bpc = "idle"
    /\ IF requests = 0
       THEN /\ bpc' = "returned"
            /\ batchValue' = <<>>
            /\ UNCHANGED <<reqState, reqAttempt>>
       ELSE /\ bpc' = "awaiting"
            /\ reqState' = dispatch(reqState, 0)
            /\ reqAttempt' = startAttempts(reqAttempt, 0)
            /\ UNCHANGED batchValue
    /\ UNCHANGED <<requests, batchIndex, results, rejected, batchError,
                   reqSleeping, usageLogs, outOfOrder>>
    /\ UNCHANGED <<clsVars, retryVars, callVars, genVars, sideVars>>

\* a call as it would run if the failure of the batch cancelled it
runningUntilBatchFails(r) ==
    reqState[r] = "inflight" /\ bpc # "threw"

\* the generateText call of request r is running: nothing but its own
\* return or throw ends it
running(r) ==
    reqState[r] = "inflight"

\* a call as it would wait if a backoff sleep blocked every call
awaitingRemoteUnlessAnySleeps(r) ==
    running(r) /\ \A q \in 1..requests : ~reqSleeping[q]

\* the call of request r awaits its remote call (it is not in its backoff
\* sleep, which suspends this call only)
awaitingRemote(r) ==
    running(r) /\ ~reqSleeping[r]

\* the call of request r is in its backoff sleep
sleeping(r) ==
    running(r) /\ reqSleeping[r]

\* the remote call of request r answers with text: withRetry and then
\* generateText return, after the usage record is handed over
RequestSucceeds(r) ==
    /\ awaitingRemote(r)
    /\ reqState' = [reqState EXCEPT ![r] = "returned"]
    /\ usageLogs' = usageLogs \cup {usageRecord(r, TRUE)}
    /\ outOfOrder' =
         (outOfOrder \/ \E q \in slice(batchIndex) :
                           q < r /\ reqState[q] = "inflight")
    /\ UNCHANGED <<bpc, requests, batchIndex, results, rejected, batchError,
                   batchValue, reqAttempt, reqSleeping>>
    /\ UNCHANGED <<clsVars, retryVars, callVars, genVars, sideVars>>

\* the attempt of request r fails with a retryable error before the last
\* attempt: withRetry sleeps
RequestRetries(r) ==
    /\ awaitingRemote(r)
    /\ reqAttempt[r] < GenMaxRetries
    /\ reqSleeping' = [reqSleeping EXCEPT ![r] = TRUE]
    /\ UNCHANGED <<bpc, requests, batchIndex, reqState, results, rejected,
                   batchError, batchValue, reqAttempt, usageLogs, outOfOrder>>
    /\ UNCHANGED <<clsVars, retryVars, callVars, genVars, sideVars>>

\* the backoff sleep of request r ends: the next attempt starts
RequestWakes(r) ==
    /\ sleeping(r)
    /\ reqSleeping' = [reqSleeping EXCEPT ![r] = FALSE]
    /\ reqAttempt' = [reqAttempt EXCEPT ![r] = reqAttempt[r] + 1]
    /\ UNCHANGED <<bpc, requests, batchIndex, reqState, results, rejected,
                   batchError, batchValue, usageLogs, outOfOrder>>
    /\ UNCHANGED <<clsVars, retryVars, callVars, genVars, sideVars>>

\* the attempt of request r fails with a non-retryable error, or with a
\* retryable one on the last attempt: withRetry and then generateText
\* throw, after the usage record is handed over; the first rejection of a
\* group settles its Promise.all
RequestFails(r) ==
    /\ awaitingRemote(r)
    /\ reqState' = [reqState EXCEPT ![r] = "threw"]
    /\ usageLogs' = usageLogs \cup {usageRecord(r, FALSE)}
    /\ rejected' = (IF rejected = 0 THEN r ELSE rejected)
    /\ UNCHANGED <<bpc, requests, batchIndex, results, batchError,
                   batchValue, reqAttempt, reqSleeping, outOfOrder>>
    /\ UNCHANGED <<clsVars, retryVars, callVars, genVars, sideVars>>

\* Promise.all is fulfilled as it would be if one fulfilled request were
\* enough
fulfilledAny(state, i) ==
    \E r \in slice(i) : state[r] = "returned"

\* Promise.all(batchPromises) is fulfilled: every request of the group has
\* returned
fulfilled(state, i) ==
    \A r \in slice(i) : state[r] = "returned"

\* the results of a group as they would be in reverse order
batchResultsReversed(i) ==
    [k \in 1..Cardinality(slice(i)) |->
        inOrder(slice(i))[Cardinality(slice(i)) + 1 - k]]

\* const batchResults = await Promise.all(batchPromises): the results of
\* the group in the order of its requests
batchResults(i) == inOrder(slice(i))

\* await Promise.all resumes with the results, which are pushed in the
\* order of the group; then i += batchSize and the next group is
\* dispatched, or the loop ends and results is returned
GroupResolves ==
    /\ bpc = "awaiting" /\ rejected = 0
    /\ fulfilled(reqState, batchIndex)
    /\ results' = results \o batchResults(batchIndex)
    /\ batchIndex' = batchIndex + batchSize
    /\ IF batchIndex' < requests
       THEN /\ reqState' = dispatch(reqState, batchIndex')
            /\ reqAttempt' = startAttempts(reqAttempt, batchIndex')
            /\ UNCHANGED <<bpc, batchValue>>
       ELSE /\ bpc' = "returned"
            /\ batchValue' = results'
            /\ UNCHANGED <<reqState, reqAttempt>>
    /\ UNCHANGED <<requests, rejected, batchError, reqSleeping, usageLogs,
                   outOfOrder>>
    /\ UNCHANGED <<clsVars, retryVars, callVars, genVars, sideVars>>

\* the catch block as it would be if it returned the results so far
BatchReturnsPartial ==
    /\ bpc = "awaiting" /\ rejected # 0
    /\ bpc' = "returned"
    /\ batchValue' = results
    /\ UNCHANGED <<requests, batchIndex, reqState, results, rejected,
                   batchError, callsVars>>
    /\ UNCHANGED <<clsVars, retryVars, callVars, genVars, sideVars>>

\* await Promise.all throws the first rejection of the group; the catch
\* block logs it and rethrows
BatchFails ==
    /\ bpc = "awaiting" /\ rejected # 0
    /\ bpc' = "threw"
    /\ batchError' = rejected
    /\ UNCHANGED <<requests, batchIndex, reqState, results, rejected,
                   batchValue, callsVars>>
    /\ UNCHANGED <<clsVars, retryVars, callVars, genVars, sideVars>>

(***************************************************************************)
(* Specifications.                                                         *)
(***************************************************************************)
NextClassify == Classify

SpecClassify == InitClassify /\ [][NextClassify]_vars

NextSanitize == Sanitize \/ SanitizeAgain

SpecSanitize == InitSanitize /\ [][NextSanitize]_vars

NextBudget == ValidateAndAdjust \/ Estimate

SpecBudget == InitBudget /\ [][NextBudget]_vars

NextBatch ==
    \/ GenerateTextBatch
    \/ \E r \in 1..requests : RequestSucceeds(r)
    \/ \E r \in 1..requests : RequestFails(r)
    \/ GroupResolves
    \/ BatchFails

SpecBatch == InitBatch /\ [][NextBatch]_vars

NextBatchCalls ==
    \/ NextBatch
    \/ \E r \in 1..requests : RequestRetries(r)
    \/ \E r \in 1..requests : RequestWakes(r)

SpecBatchCalls == InitBatchCalls /\ [][NextBatchCalls]_vars

NextRetry == RetryLoop \/ OpResolves \/ OpRejects \/ SleepElapses

SpecRetry == InitRetry /\ [][NextRetry]_vars

\* every call of operation settles, every timer of a sleep fires, and the
\* loop runs when it can
FairSpecRetry ==
    /\ InitRetry /\ [][NextRetry]_vars
    /\ WF_vars(RetryLoop)
    /\ WF_vars(OpResolves \/ OpRejects)
    /\ WF_vars(SleepElapses)

NextGen ==
    \/ GenerateText
    \/ RetryLoop
    \/ TimerFires
    \/ TransportResolves
    \/ TransportRejects
    \/ SleepElapses
    \/ GenSucceeds
    \/ GenFails

SpecGen == InitGen /\ [][NextGen]_vars

NextHealth ==
    \/ HealthCheck
    \/ RetryLoop
    \/ TimerFires
    \/ TransportResolves
    \/ TransportRejects
    \/ SleepElapses
    \/ GenSucceeds
    \/ GenFails
    \/ HealthReturns

SpecHealth == InitHealth /\ [][NextHealth]_vars

NextMessage == GetErrorMessage

SpecMessage == InitMessage /\ [][NextMessage]_vars

NextConfig == GetGeminiConfig

SpecConfig == InitConfig /\ [][NextConfig]_vars

(***************************************************************************)
(* Properties.                                                             *)
(***************************************************************************)
\* the kind of a thrown value: its type if it is a GeminiError, else the
\* kind inferErrorType gives it
kindOf(error) ==
    IF instanceofGeminiError(error) THEN error.type
    ELSE inferErrorType(error)

\* some call of operation has raised, so lastRaised is an error it raised
hasRaised == firstOutcome \in {"fatal", "retryable"}

\* the fixed retryability table of the error kinds
TableRetryable(kind) ==
    kind \in { "RATE_LIMIT_EXCEEDED", "TIMEOUT", "NETWORK_ERROR",
               "SERVICE_UNAVAILABLE" }

\* C1: called with maxRetries >= 1, withRetry calls operation at most
\* maxRetries times; when the first call succeeds or raises a
\* non-retryable error there is exactly one call, and that result is
\* returned / that error is thrown.
C1_RetryBound ==
    maxRetries >= 1 =>
        /\ invocations <= maxRetries
        /\ firstOutcome = "success" =>
               invocations = 1 /\ rpc = "returned"
        /\ firstOutcome = "fatal" =>
               invocations = 1 /\ rpc = "threw" /\ retError = lastRaised

C1_Witness ==
    /\ maxRetries >= 2
    /\ firstOutcome = "fatal"
    /\ rpc = "threw"
    /\ invocations = 1

C3_TimeoutCancels ==
    controllerAborted => remote # "inflight"

\* C4: a TIMEOUT error built by makeAPICall is retried: withRetry throws it
\* only when all GenMaxRetries attempts have been made.
C4_TimeoutRetried ==
    (rpc = "threw" /\ hasRaised /\ instanceofGeminiError(lastRaised)
        /\ lastRaised.type = "TIMEOUT") =>
        invocations = GenMaxRetries

\* C5: after operation raises an error of kind QUOTA_EXCEEDED or UNKNOWN,
\* withRetry has thrown that error (it neither waits nor calls again).
C5_QuotaUnknownFatal ==
    (hasRaised /\ kindOf(lastRaised) \in {"QUOTA_EXCEEDED", "UNKNOWN"}) =>
        rpc = "threw" /\ retError = lastRaised

C7_RetryableFromTable ==
    /\ \A error \in constructed :
           error.retryable = TableRetryable(error.type)
    /\ gpc = "threw" =>
           genError.retryable = TableRetryable(genError.type)

\* the kinds the status rules map a status code to (any kind for a status
\* that matches no status rule)
StatusRuleKinds(status) ==
    CASE status = 401  -> {"API_KEY_INVALID"}
      [] status = 429  -> {"QUOTA_EXCEEDED", "RATE_LIMIT_EXCEEDED"}
      [] status = 400  -> {"INVALID_REQUEST"}
      [] status >= 500 -> {"SERVICE_UNAVAILABLE"}
      [] OTHER         -> GeminiErrorType

\* C8: a value with a status code that matches a status rule (401, 429,
\* 400, >= 500) is given the kind of that status, whatever its message.
C8_StatusBeforeMessage ==
    (clsState = "done" /\ statusOf(clsError) # NoStatus) =>
        clsKind \in StatusRuleKinds(statusOf(clsError))

\* the transport failure with status 429 and message "rate limit exceeded"
RateLimit429 ==
    Untyped("Error", "Error", TRUE, <<"rate limit exceeded">>, 429, NoStatus)

\* C9: the failure with status 429 and message "rate limit exceeded" is of
\* kind RATE_LIMIT_EXCEEDED, and after operation raises it withRetry goes on
\* to wait and call again; it throws it only when maxRetries calls were made.
C9_RateLimit429Retried ==
    (hasRaised /\ lastRaised = RateLimit429) =>
        /\ inferErrorType(lastRaised) = "RATE_LIMIT_EXCEEDED"
        /\ ~isNonRetryableError(lastRaised)
        /\ rpc = "threw" => invocations = maxRetries

C9_Witness ==
    /\ hasRaised
    /\ lastRaised = RateLimit429
    /\ rpc = "sleeping"
    /\ invocations = 1
    /\ maxRetries = 3

\* the lower-cased message inferErrorType looks at
messageOf(error) ==
    toLowerCase(IF error.cls # "null" /\ error.hasMessage THEN error.message
                ELSE <<>>)

\* the message matches one of the rules that come before the quota /
\* rate limit rule
MatchesBeforeQuota(m) ==
    includes(m, "unauthorized") \/ includes(m, "api key")

\* the message matches one of the rules that come before the timeout rule
MatchesBeforeTimeout(m) ==
    \/ MatchesBeforeQuota(m)
    \/ includes(m, "quota") \/ includes(m, "rate limit")
    \/ includes(m, "invalid")
    \/ includes(m, "service unavailable") \/ includes(m, "internal server")

\* the value matches no rule at all
MatchesNoRule(error) ==
    \/ error.cls = "null"
    \/ /\ statusOf(error) \notin {400, 401, 429}
       /\ statusOf(error) < 500
       /\ LET m == messageOf(error)
          IN  /\ ~MatchesBeforeTimeout(m)
              /\ ~includes(m, "timeout") /\ ~includes(m, "timed out")
              /\ ~(includes(m, "content") /\ includes(m, "filter"))
              /\ ~includes(m, "network") /\ ~includes(m, "connection")
              /\ ~(includes(m, "token") /\ includes(m, "limit"))

\* C10 as stated: inferErrorType gives every value a kind; for a value
\* without status, a message with "quota" and "rate limit" gives
\* QUOTA_EXCEEDED and a message with "timeout" and "network" / "connection"
\* gives TIMEOUT; a value that matches no rule gives UNKNOWN.
C10_MessageOrderAsStated ==
    clsState = "done" =>
        LET m == messageOf(clsError)
            noStatus == statusOf(clsError) = NoStatus
        IN  /\ clsKind \in GeminiErrorType
            /\ (noStatus /\ includes(m, "quota") /\ includes(m, "rate limit"))
                   => clsKind = "QUOTA_EXCEEDED"
            /\ (noStatus /\ includes(m, "timeout")
                    /\ (includes(m, "network") \/ includes(m, "connection")))
                   => clsKind = "TIMEOUT"
            /\ MatchesNoRule(clsError) => clsKind = "UNKNOWN"

\* C10 as amended: the same, for messages that match no earlier rule: a
\* message with "quota" and "rate limit" and neither "unauthorized" nor
\* "api key" gives QUOTA_EXCEEDED; a message with "timeout" and "network" /
\* "connection" and none of "unauthorized", "api key", "quota",
\* "rate limit", "invalid", "service unavailable", "internal server" gives
\* TIMEOUT.
C10_MessageOrder ==
    clsState = "done" =>
        LET m == messageOf(clsError)
            noStatus == statusOf(clsError) = NoStatus
        IN  /\ clsKind \in GeminiErrorType
            /\ (noStatus /\ includes(m, "quota") /\ includes(m, "rate limit")
                    /\ ~MatchesBeforeQuota(m))
                   => clsKind = "QUOTA_EXCEEDED"
            /\ (noStatus /\ includes(m, "timeout")
                    /\ (includes(m, "network") \/ includes(m, "connection"))
                    /\ ~MatchesBeforeTimeout(m))
                   => clsKind = "TIMEOUT"
            /\ MatchesNoRule(clsError) => clsKind = "UNKNOWN"

C10_Witness ==
    /\ clsState = "done"
    /\ statusOf(clsError) = NoStatus
    /\ clsError.message = <<"rate limit", "Quota">>
    /\ clsError.cls = "Error"
    /\ clsKind = "QUOTA_EXCEEDED"

\* sanitizeText has been applied to sanInput
sanitized == sanState \in {"once", "twice"}

\* C14: monotonic budget: when the estimate of a text exceeds
\* maxTokens - 2000, the adjusted text that validateAndAdjustTokens
\* produces has an estimate of at most maxTokens - 2000.
C14_MonotonicBudget ==
    (budState = "done"
       /\ estimateTokens(budText) > budMaxTokens - ReservedTokens) =>
        /\ budResult.hasAdjustedText
        /\ estimateTokens(budResult.adjustedText)
              <= budMaxTokens - ReservedTokens
        /\ budResult.estimatedTokens <= budMaxTokens - ReservedTokens

\* C16: sanitizeText is idempotent: applied to its own output it returns
\* that output, for every text, also one longer than the ceiling and one
\* with spaces, tabs, carriage returns and newlines.
C16_Idempotent ==
    sanState = "twice" => sanAgain = sanOutput

\* two letters with a run of n newlines between them
NewlineRun(n) == <<"a">> \o Repeat("\n", n) \o <<"a">>

\* the output the specification gives for ExampleText
ExampleOutput ==
    <<"a", "\n", "b", " ", " ", " ", " ", "c", "\n", "\n", "d">>

\* C17: sanitizeText turns a run of three or more newlines into exactly
\* two newlines and leaves a run of exactly two newlines as it is; the
\* example text becomes "a\nb    c\n\nd".
C17_CollapseNewlines ==
    sanitized =>
        /\ \A n \in 2..MaxTextLen :
              sanInput = NewlineRun(n) => sanOutput = NewlineRun(2)
        /\ sanInput = ExampleText => sanOutput = ExampleOutput

\* C18: the output of sanitizeText is in normal form: no longer than the
\* ceiling, no whitespace at its start or end, no tab, no carriage return,
\* and no space, tab or carriage return right before a newline.
C18_NormalForm ==
    sanitized =>
        /\ Len(sanOutput) <= MaxLength
        /\ sanOutput # <<>> =>
              /\ sanOutput[1] \notin Whitespace
              /\ sanOutput[Len(sanOutput)] \notin Whitespace
        /\ \A i \in DOMAIN sanOutput : sanOutput[i] \notin {"\t", "\r"}
        /\ \A i \in DOMAIN sanOutput :
              (i > 1 /\ sanOutput[i] = "\n") =>
                  sanOutput[i - 1] \notin {" ", "\t", "\r"}

\* generateText has passed its initialization check
passedInit == gpc \in {"retrying", "returned", "threw"} /\ rpc # "idle"

\* generateText has thrown the error that ended its retry sequence
surfaced == gpc = "threw" /\ rpc = "threw"

\* C11: when the remote call resolves without text (missing or empty), the
\* attempt fails with a CONTENT_FILTERED error, that failure is not retried
\* (it ends the retry sequence and is what generateText throws), and
\* generateText never returns a response with an empty text.
C11_NoTextIsContentFiltered ==
    /\ (remote = "resolved"
          /\ (~lastResponse.hasText \/ lastResponse.text = <<>>)) =>
          /\ rpc = "threw"
          /\ instanceofGeminiError(lastRaised)
          /\ lastRaised.type = "CONTENT_FILTERED"
          /\ retError = lastRaised
          /\ Len(dispatched) = invocations
          /\ gpc \in {"retrying", "threw"}
          /\ gpc = "threw" => genError.type = "CONTENT_FILTERED"
    /\ gpc = "returned" => genValue.text # <<>>

\* an empty text came back on the second attempt and generateText threw
C11_Witness ==
    /\ gpc = "threw" /\ remote = "resolved"
    /\ lastResponse.hasText /\ lastResponse.text = <<>>
    /\ invocations = 2
    /\ genError.type = "CONTENT_FILTERED"

\* C12: a generateText call that passed the initialization check hands
\* exactly one usage record to logAPIUsage, and only once the retry
\* sequence has ended; the record's success flag is true exactly when
\* generateText returns, and the record is not changed afterwards.
C12_OneUsageRecord ==
    /\ Len(recorded) <= 1
    /\ recorded # <<>> => rpc \in {"returned", "threw"}
    /\ (passedInit /\ gpc = "retrying") => recorded = <<>>
    /\ (passedInit /\ gpc \in {"returned", "threw"}) =>
          /\ Len(recorded) = 1
          /\ recorded[1].success = (gpc = "returned")
          /\ recorded[1] = log

\* a success on the third attempt, recorded once
C12_Witness ==
    /\ gpc = "returned" /\ invocations = 3
    /\ Len(recorded) = 1 /\ recorded[1].success

\* C13: the error generateText throws after the retry sequence is a
\* GeminiError: the error that ended the sequence itself when that is a
\* GeminiError, otherwise a GeminiError of type inferErrorType(error) with
\* that error as originalError; the usage record with success = false has
\* been handed over by then.
C13_TypedFailure ==
    surfaced =>
        /\ instanceofGeminiError(genError)
        /\ genError.type \in GeminiErrorType
        /\ instanceofGeminiError(retError) => genError = retError
        /\ ~instanceofGeminiError(retError) =>
              /\ genError.type = inferErrorType(retError)
              /\ genError.originalError = retError
        /\ Len(recorded) = 1
        /\ ~recorded[1].success

\* three attempts ended in an untyped rate-limit error, which is wrapped
C13_Witness ==
    /\ surfaced /\ invocations = 3
    /\ ~instanceofGeminiError(retError)
    /\ genError.type = "RATE_LIMIT_EXCEEDED"
    /\ genError.originalError = retError
    /\ ~recorded[1].success

\* the input budget of a call: maxTokens - 2000
allowedTokens == maxTokensOf(options) - ReservedTokens

\* the sanitized prompt is over the budget of the call
overBudget == estimateTokens(sanitizeText(options.prompt)) > allowedTokens

\* the prefix of text of length floor(length * allowed / estimated); a
\* text of estimate 0 is empty and has the empty prefix only, and no prefix
\* is shorter than the empty one
prefixOf(text, allowed, estimated) ==
    IF estimated = 0 THEN <<>>
    ELSE SubSeq(text, 1, (Len(text) * allowed) \div estimated)

\* the text the specification has generateText dispatch
expectedDispatch ==
    LET sanitizedPrompt == sanitizeText(options.prompt)
    IN  IF ~overBudget THEN sanitizedPrompt
        ELSE prefixOf(sanitizedPrompt, allowedTokens,
                      estimateTokens(sanitizedPrompt))
               \o TruncationMarker

\* C15: every attempt of a generateText call dispatches the same text: the
\* sanitized prompt when its estimate is within the budget, otherwise the
\* prefix of the sanitized prompt of length
\* floor(length * allowedTokens / estimatedTokens) followed by the marker;
\* the input token count of the usage record and of the response is the
\* estimate of the dispatched text.
C15_DispatchedText ==
    passedInit =>
        /\ Len(dispatched) = invocations
        /\ \A i \in DOMAIN dispatched : dispatched[i] = expectedDispatch
        /\ log.inputTokens = estimateTokens(expectedDispatch)
        /\ \A i \in DOMAIN recorded :
              recorded[i].inputTokens = estimateTokens(expectedDispatch)
        /\ gpc = "returned" =>
              genValue.tokens.input = estimateTokens(expectedDispatch)

\* a prompt over a positive budget was cut, sent twice and answered
C15_Witness ==
    /\ gpc = "returned" /\ Len(dispatched) = 2
    /\ overBudget /\ allowedTokens > 0
    /\ dispatched[1] # sanitizeText(options.prompt)
    /\ Len(dispatched[1]) > Len(TruncationMarker)
    /\ genValue.tokens.input = estimateTokens(dispatched[2])

\* the group of request r, counted from 0: requests 1..5 are group 0,
\* requests 6..10 group 1
groupOf(r) == (r - 1) \div 5

\* the requests whose generateText call is in flight
inFlight == { r \in 1..requests : reqState[r] = "inflight" }

\* the requests whose generateText call has thrown
failedRequests == { r \in 1..requests : reqState[r] = "threw" }

\* C19: generateTextBatch takes the requests in consecutive groups of 5
\* (7 requests: 5, then 2): never more than 5 requests are in flight, the
\* requests of a group are dispatched together, and no request of a later
\* group is dispatched before every request of the groups before it has
\* returned.
C19_GroupsOfFive ==
    /\ Cardinality(inFlight) <= 5
    /\ \A r, q \in 1..requests :
          groupOf(q) = groupOf(r) =>
              (reqState[q] = "waiting" <=> reqState[r] = "waiting")
    /\ \A r, q \in 1..requests :
          (groupOf(q) < groupOf(r) /\ reqState[r] # "waiting") =>
              reqState[q] = "returned"
    /\ bpc \in {"awaiting", "returned", "threw"} =>
          \A r \in 1..requests : r <= 5 => reqState[r] # "waiting"

\* of 7 requests the first five have returned and the last two are in
\* flight together
C19_Witness ==
    /\ requests = 7 /\ bpc = "awaiting"
    /\ \A r \in 1..5 : reqState[r] = "returned"
    /\ inFlight = {6, 7}
    /\ results = <<1, 2, 3, 4, 5>>

\* C20: once a request of the batch has failed, generateTextBatch does not
\* return: it throws the error of a failed request (the one whose
\* rejection settled the group), hands no results to its caller, and no
\* request of a later group is ever dispatched.
C20_FailureAbortsBatch ==
    /\ failedRequests # {} =>
          /\ bpc \in {"awaiting", "threw"}
          /\ batchValue = <<>>
          /\ rejected \in failedRequests
          /\ \A r \in 1..requests :
                groupOf(r) > groupOf(rejected) => reqState[r] = "waiting"
    /\ bpc = "threw" =>
          /\ batchError \in failedRequests
          /\ batchError = rejected
    /\ bpc = "returned" =>
          /\ failedRequests = {}
          /\ Len(batchValue) = requests

\* the first group of 7 requests succeeded, request 6 failed alone, and
\* the batch threw its error without returning the five results it held
C20_Witness ==
    /\ requests = 7 /\ bpc = "threw"
    /\ failedRequests = {6} /\ batchError = 6
    /\ Len(results) = 5
    /\ batchValue = <<>>

\* the dense-script (Hangul) characters of the estimated text
denseCount == Cardinality({ i \in DOMAIN budText : budText[i] \in Hangul })

\* its other characters
otherCount == Len(budText) - denseCount

\* n is ceil(d / 2.5 + o / 4): the least integer with n >= (8d + 5o) / 20
IsCeilOfCost(n, d, o) ==
    /\ 20 * n >= 8 * d + 5 * o
    /\ 20 * (n - 1) < 8 * d + 5 * o

\* C25: estimateTokens gives 0 for the empty text and
\* max(1, ceil(d / 2.5 + o / 4)) for a text with d Hangul and o other
\* characters, so at least 1 for every non-empty text; "Hello" gives 2 and
\* five Hangul syllables give 2.
C25_EstimateFormula ==
    budState = "estimated" =>
        /\ budText = <<>> => budEstimate = 0
        /\ budText # <<>> =>
              /\ budEstimate >= 1
              /\ IsCeilOfCost(budEstimate, denseCount, otherCount)
                    \/ (budEstimate = 1
                          /\ \E n \in {0, 1} :
                                IsCeilOfCost(n, denseCount, otherCount))
        /\ budText = HelloText => budEstimate = 2
        /\ (denseCount = 5 /\ otherCount = 0) => budEstimate = 2

\* a mixed text whose cost is not a whole number has been estimated
C25_Witness ==
    /\ budState = "estimated"
    /\ denseCount = 3 /\ otherCount = 2
    /\ budEstimate = 2

\* text begins with a non-empty prefix of whole
beginsWithPrefixOf(text, whole) ==
    \E n \in 1..Len(whole) :
        /\ n <= Len(text)
        /\ SubSeq(text, 1, n) = SubSeq(whole, 1, n)

\* C27: when the sanitized prompt is not empty, every text generateText
\* dispatches begins with a non-empty prefix of the sanitized prompt,
\* whatever options.maxTokens is (also when maxTokens - 2000 is zero or
\* negative, as with the maxTokens = 10 of healthCheck).
C27_PromptSurvives ==
    (passedInit /\ sanitizeText(options.prompt) # <<>>) =>
        \A i \in DOMAIN dispatched :
            beginsWithPrefixOf(dispatched[i], sanitizeText(options.prompt))

\* the requests whose generateText call has returned or thrown
completedRequests == { r \in 1..requests : reqState[r] \in {"returned", "threw"} }

\* the call of request q can take its next step now: the guard of
\* RequestWakes holds (its sleep can end), or the guard of RequestSucceeds,
\* RequestFails and, before the last attempt, RequestRetries holds (its
\* remote call can answer)
canProgress(q) ==
    IF reqSleeping[q] THEN sleeping(q) ELSE awaitingRemote(q)

\* C29: when generateTextBatch returns, it returns one result per request
\* in the order of the input, in whatever order the calls completed; for
\* an empty list it returns the empty list, no call is made and no usage
\* record is handed over.
C29_InputOrder ==
    /\ bpc = "returned" =>
          /\ failedRequests = {}
          /\ batchValue = [k \in 1..requests |-> k]
    /\ (requests = 0 /\ bpc # "idle") =>
          /\ bpc = "returned"
          /\ batchValue = <<>>
          /\ usageLogs = {}

\* 7 requests were returned in input order although a request completed
\* before one that precedes it in its group
C29_Witness ==
    /\ requests = 7 /\ bpc = "returned"
    /\ outOfOrder
    /\ batchValue = <<1, 2, 3, 4, 5, 6, 7>>

inRange(a, limit) == ~a.isNaN /\ 0 < a.value /\ a.value <= limit

\* the API key is missing or a number of the configuration built from the
\* environment is out of range
invalidConfig(c) ==
    \/ c.apiKey = Unset \/ c.apiKey = <<>>
    \/ ~inRange(c.maxTokens, 50000)
    \/ ~inRange(c.timeout, 60000)
    \/ ~inRange(c.rateLimitPerMinute, 1000)

\* C26: construction fails if and only if the API key is missing or a
\* numeric field is out of range, and every configuration a constructed
\* client holds has 0 < maxTokens <= 50000, 0 < timeout <= 60000 and
\* 0 < rateLimitPerMinute <= 1000, also when a supplied value does not
\* parse as an integer.
C26_AcceptedInRange ==
    /\ cfgState = "threw" => invalidConfig(configOf(env))
    /\ cfgState = "constructed" =>
          /\ ~invalidConfig(configOf(env))
          /\ inRange(config.maxTokens, 50000)
          /\ inRange(config.timeout, 60000)
          /\ inRange(config.rateLimitPerMinute, 1000)

\* C23: healthCheck never raises; it returns true exactly when the
\* generateText call of its probe returned (with a text, which is never
\* empty), and false whenever that call threw, whatever the kind of the
\* error and also after the third attempt has failed.
C23_HealthNeverRaises ==
    /\ hpc \in {"idle", "awaiting", "returned"}
    /\ hpc = "returned" =>
          /\ gpc \in {"returned", "threw"}
          /\ healthValue <=>
                (gpc = "returned" /\ rpc = "returned"
                   /\ genValue.text = lastResponse.text
                   /\ lastResponse.text # <<>>)
          /\ gpc = "threw" => ~healthValue
          /\ rpc = "threw" => ~healthValue

\* healthCheck returned false after the probe failed three times with a
\* retryable error
C23_Witness ==
    /\ hpc = "returned" /\ ~healthValue
    /\ gpc = "threw" /\ invocations = 3
    /\ genError.type = "SERVICE_UNAVAILABLE"

\* what getErrorMessage looks at: the type of a GeminiError; a value that
\* is not a GeminiError has none
userKindOf(error) ==
    IF instanceofGeminiError(error) THEN error.type ELSE "none"

\* no fragment of the message of the error occurs in the user message
leaksNothing(error, userMessage) ==
    \A i \in DOMAIN error.message, j \in DOMAIN userMessage :
        error.message[i] # userMessage[j]

\* C24: the user message depends only on the kind of the error: two
\* GeminiError values of the same type get the same user message whatever
\* their messages and causes (and two values that are not a GeminiError
\* get the same one), and no fragment of the message of the error occurs
\* in its user message.
C24_MessageByKindOnly ==
    msgState = "done" =>
        /\ userKindOf(msgErrors[1]) = userKindOf(msgErrors[2]) =>
              userMessages[1] = userMessages[2]
        /\ leaksNothing(msgErrors[1], userMessages[1])
        /\ leaksNothing(msgErrors[2], userMessages[2])

\* two QUOTA_EXCEEDED errors with different messages and causes got the
\* same user message, which is not the default one
C24_Witness ==
    /\ msgState = "done"
    /\ msgErrors[1].cls = "GeminiError" /\ msgErrors[2].cls = "GeminiError"
    /\ msgErrors[1].type = "QUOTA_EXCEEDED"
    /\ msgErrors[2].type = "QUOTA_EXCEEDED"
    /\ msgErrors[1].message = <<"quota">>
    /\ msgErrors[2].message = <<"api key", "invalid">>
    /\ msgErrors[1].originalError # msgErrors[2].originalError
    /\ userMessages[1] = userMessages[2]
    /\ userMessages[1] # DefaultUserMessage

terminated == rpc \in {"returned", "threw"}

\* what withRetry hands to its caller comes from operation: a value it
\* resolved with, or the error it raised last
fromOperation ==
    /\ rpc = "returned" =>
          /\ invocations >= 1
          /\ \E r \in Responses : retValue = APIResult(r.text)
    /\ rpc = "threw" =>
          /\ invocations >= 1
          /\ hasRaised
          /\ retError = lastRaised

\* every call of withRetry terminates
EventuallyTerminated == <>terminated

\* C30: when every call of operation settles, every call of withRetry
\* eventually returns or throws, and what it returns is a result of
\* operation and what it throws is an error operation raised.
C30_Terminates ==
    /\ EventuallyTerminated
    /\ [](terminated => fromOperation)

====
